---- MODULE Spec2Model ----
(***************************************************************************)
(* GPU-Graphic: the inventory reconciliation of the three status scripts.  *)
(*   old4  = src/old4_generate_gpu_status.py  (static hardware truth map)  *)
(*   cur   = src/generate_gpu_status.py       (SLURM GRES fallback)        *)
(*   old7  = src/old7_generate_gpu_status.py  (peer-mode comparison)       *)
(* Text the scripts inspect (state tags, GRES descriptors, probe lines,    *)
(* model names) is a sequence of one-character strings, so that the        *)
(* substring tests, splits and integer conversions are computed.  Node     *)
(* names and hostlist expressions are only used as keys and are atoms.     *)
(***************************************************************************)
EXTENDS Integers, Sequences, FiniteSets, TLC

VARIABLES
    script,           \* which script runs: "old4", "cur" or "old7"
    pc,               \* position of the run
    hardware_map,     \* old4: node name -> [model, count]
    listing,          \* get_gpu_data: the lines sinfo returned
    lines,            \* get_gpu_data: listing lines still to process
    pending,          \* get_gpu_data: nodes of the current line still to process
    node_state,       \* get_gpu_data: state tag of the current line
    gres,             \* cur: GRES descriptor of the current line
    processed_nodes,  \* old4: names already handled
    data,             \* get_gpu_data: node name -> [slurm_state, gpus]
    srun_log,         \* node names a probe (srun nvidia-smi) was issued for, in order
    last,             \* the node reconciled last: state tag, expected model and count, probe outcome
    warnings,         \* messages printed about a node: [node, kind]
    exit_status,      \* -1 while running, else the process exit status
    image,            \* whether create_status_image drew an image, and of what
    expanded,         \* the last call of expand_hostlist: expression, return code, result
    raw_output,       \* old7: node blocks returned by get_slurm_data
    nodes,            \* old7: parse_nodes result
    feature_groups,   \* old7: features -> list of gpu counts
    expected_counts,  \* old7: features -> mode
    idx,              \* old7: items of the current loop already visited
    report,           \* old7: text report rows [name, status, actual, expected]
    saved             \* old7: whether save_cluster_image ran, and the rows it drew

vars == <<script, pc, hardware_map, listing, lines, pending, node_state, gres,
          processed_nodes, data, srun_log, last, warnings, exit_status, image,
          expanded, raw_output, nodes, feature_groups, expected_counts, idx, report, saved>>

gpuVars == <<hardware_map, listing, lines, pending, node_state, gres, processed_nodes,
             data, srun_log, last, warnings, image, expanded>>

peerVars == <<raw_output, nodes, feature_groups, expected_counts, idx, report, saved>>

-----------------------------------------------------------------------------
(* Bounds of the model *)

\* longest probe output, in lines
MaxProbeLines == 2
\* longest node listing, in lines (get_gpu_data) or node blocks (old7)
MaxRecords == 2

-----------------------------------------------------------------------------
(* Python string operations, on sequences of characters *)

DigitChars == <<"0", "1", "2", "3", "4", "5", "6", "7", "8", "9">>
UpperChars == <<"A", "B", "C", "D", "E", "F", "G", "H", "I", "J", "K", "L", "M",
                "N", "O", "P", "Q", "R", "S", "T", "U", "V", "W", "X", "Y", "Z">>
LowerChars == <<"a", "b", "c", "d", "e", "f", "g", "h", "i", "j", "k", "l", "m",
                "n", "o", "p", "q", "r", "s", "t", "u", "v", "w", "x", "y", "z">>

Range(f) == {f[i] : i \in DOMAIN f}

IndexOf(tbl, c) == CHOOSE i \in DOMAIN tbl : tbl[i] = c

\* str.lower() / str.upper()
LowerChar(c) == IF c \in Range(UpperChars) THEN LowerChars[IndexOf(UpperChars, c)] ELSE c
UpperChar(c) == IF c \in Range(LowerChars) THEN UpperChars[IndexOf(LowerChars, c)] ELSE c
Lower(s) == [i \in DOMAIN s |-> LowerChar(s[i])]
Upper(s) == [i \in DOMAIN s |-> UpperChar(s[i])]

\* sub in s
Contains(s, sub) ==
    \E i \in 1..(Len(s) - Len(sub) + 1) : SubSeq(s, i, i + Len(sub) - 1) = sub

\* s.startswith(pre)
StartsWith(s, pre) == Len(s) >= Len(pre) /\ SubSeq(s, 1, Len(pre)) = pre

\* str.isdigit()
IsDigit(s) == s # <<>> /\ \A i \in DOMAIN s : s[i] \in Range(DigitChars)

RECURSIVE ParseNat(_)
ParseNat(s) ==
    IF s = <<>> THEN 0
    ELSE ParseNat(SubSeq(s, 1, Len(s) - 1)) * 10 + (IndexOf(DigitChars, s[Len(s)]) - 1)

\* int(s) succeeds: an optional sign and decimal digits
IntParses(s) ==
    \/ IsDigit(s)
    \/ Len(s) > 1 /\ s[1] \in {"-", "+"} /\ IsDigit(Tail(s))

\* int(s), where it succeeds
ToInt(s) ==
    IF IsDigit(s) THEN ParseNat(s)
    ELSE IF s[1] = "-" THEN 0 - ParseNat(Tail(s)) ELSE ParseNat(Tail(s))

\* str(i) for i >= 0
RECURSIVE Str(_)
Str(i) ==
    IF i < 10 THEN <<DigitChars[i + 1]>>
    ELSE Str(i \div 10) \o <<DigitChars[(i % 10) + 1]>>

\* s.split(sep) for a one-character separator
RECURSIVE Split(_, _)
Split(s, sep) ==
    IF \A i \in DOMAIN s : s[i] # sep THEN <<s>>
    ELSE LET k == CHOOSE i \in DOMAIN s :
                      s[i] = sep /\ \A j \in 1..(i - 1) : s[j] # sep
         IN  <<SubSeq(s, 1, k - 1)>> \o Split(SubSeq(s, k + 1, Len(s)), sep)

\* s.strip(), blanks only
RECURSIVE Strip(_)
Strip(s) ==
    IF s = <<>> THEN s
    ELSE IF s[1] = " " THEN Strip(Tail(s))
    ELSE IF s[Len(s)] = " " THEN Strip(SubSeq(s, 1, Len(s) - 1))
    ELSE s

\* s.replace(sub, "")
RECURSIVE Remove(_, _)
Remove(s, sub) ==
    IF s = <<>> THEN s
    ELSE IF StartsWith(s, sub) THEN Remove(SubSeq(s, Len(sub) + 1, Len(s)), sub)
    ELSE <<s[1]>> \o Remove(Tail(s), sub)

-----------------------------------------------------------------------------
(* Text constants *)

Txt_idle == <<"i", "d", "l", "e">>
Txt_mix == <<"m", "i", "x">>
Txt_down == <<"d", "o", "w", "n">>
Txt_drng == <<"d", "r", "n", "g">>
Txt_drain == <<"d", "r", "a", "i", "n">>
Txt_idle_star == <<"i", "d", "l", "e", "*">>
Txt_star == <<"*">>
Txt_gpu == <<"g", "p", "u">>
Txt_gpu_2 == <<"g", "p", "u", ":", "2">>
Txt_gpu_h100_2 == <<"g", "p", "u", ":", "h", "1", "0", "0", ":", "2">>
Txt_mic_1 == <<"m", "i", "c", ":", "1">>
Txt_gpu_rtx2080ti_8 ==
    <<"g", "p", "u", ":", "r", "t", "x", "2", "0", "8", "0", "t", "i", ":", "8">>
Txt_Unknown_GPU == <<"U", "n", "k", "n", "o", "w", "n", " ", "G", "P", "U">>
Txt_Unknown_New_GPU ==
    <<"U", "n", "k", "n", "o", "w", "n", " ", "N", "e", "w", " ", "G", "P", "U">>
Txt_NVIDIA == <<"N", "V", "I", "D", "I", "A">>
Txt_GEFORCE == <<"G", "E", "F", "O", "R", "C", "E">>
Txt_NVIDIA_H100 == <<"N", "V", "I", "D", "I", "A", " ", "H", "1", "0", "0">>
Txt_H100 == <<"H", "1", "0", "0">>

-----------------------------------------------------------------------------
(* Helpers shared by the scripts *)

EmptyMap == [x \in {} |-> x]

\* d[k] = v on a dict
Put(d, k, v) == [x \in DOMAIN d \cup {k} |-> IF x = k THEN v ELSE d[x]]

SeqsUpTo(S, n) == UNION {[1..k -> S] : k \in 0..n}

\* return code run_command gives for subprocess.TimeoutExpired
TimeoutRc == 124

\* return codes of an external command: success, failure, timeout
ReturnCodes == {0, 1, TimeoutRc}

\* What `scontrol show hostnames` prints for an expression it accepts.
Hostnames(expr) ==
    CASE expr = "n[1-2]" -> <<"n1", "n2">>
      [] OTHER -> <<expr>>

\* hostlist_expr.replace(" ", "") on the expressions of the model, of which
\* "n 3" alone holds a blank
NoSpaces(expr) == IF expr = "n 3" THEN "n3" ELSE expr

\* the fallback forgotten: nothing is returned when scontrol fails
ExpandOrNothing(hostlist_expr, rc) ==
    IF hostlist_expr = "" THEN <<>>
    ELSE IF rc = 0 THEN Hostnames(hostlist_expr)
    ELSE <<>>

\* expand_hostlist of cur, given the return code of the scontrol command
expand_hostlist(hostlist_expr, rc) ==
    IF hostlist_expr = "" THEN <<>>
    ELSE IF rc = 0 THEN Hostnames(hostlist_expr)
    ELSE <<hostlist_expr>>

\* expand_hostlist of old4: the blanks are removed before anything else
old4_expand_hostlist(hostlist_expr, rc) ==
    IF hostlist_expr = "" THEN <<>>
    ELSE IF rc = 0 THEN Hostnames(NoSpaces(hostlist_expr))
    ELSE <<NoSpaces(hostlist_expr)>>

\* clean_gpu_name's table of canonical names, in dict order
mapping ==
    << [key |-> <<"R", "T", "X", " ", "2", "0", "8", "0", " ", "T", "I">>,
        val |-> <<"R", "T", "X", " ", "2", "0", "8", "0", "T", "i">>],
       [key |-> <<"2", "0", "8", "0", "T", "I">>,
        val |-> <<"R", "T", "X", " ", "2", "0", "8", "0", "T", "i">>],
       [key |-> <<"R", "T", "X", " ", "6", "0", "0", "0">>,
        val |-> <<"R", "T", "X", " ", "6", "0", "0", "0">>],
       [key |-> <<"Q", "U", "A", "D", "R", "O", " ", "R", "T", "X", " ", "6", "0", "0", "0">>,
        val |-> <<"R", "T", "X", " ", "6", "0", "0", "0">>],
       [key |-> <<"R", "T", "X", " ", "8", "0", "0", "0">>,
        val |-> <<"R", "T", "X", " ", "8", "0", "0", "0">>],
       [key |-> <<"Q", "U", "A", "D", "R", "O", " ", "R", "T", "X", " ", "8", "0", "0", "0">>,
        val |-> <<"R", "T", "X", " ", "8", "0", "0", "0">>],
       [key |-> <<"H", "1", "0", "0">>,
        val |-> <<"H", "1", "0", "0">>],
       [key |-> <<"A", "1", "0", "0">>,
        val |-> <<"A", "1", "0", "0">>],
       [key |-> <<"V", "1", "0", "0">>,
        val |-> <<"V", "1", "0", "0">>],
       [key |-> <<"L", "4", "0", "S">>,
        val |-> <<"L", "4", "0", "S">>] >>

clean_gpu_name(raw_name) ==
    LET raw  == Strip(Remove(Remove(Upper(raw_name), Txt_NVIDIA), Txt_GEFORCE))
        hits == {i \in DOMAIN mapping : Contains(raw, mapping[i].key)}
    IN  IF hits = {} THEN raw
        ELSE mapping[CHOOSE i \in hits : \A j \in hits : i <= j].val

\* The loop of parse_slurm_gres over the comma-separated parts.
RECURSIVE GresParts(_, _)
GresParts(parts, acc) ==
    IF parts = <<>> THEN acc
    ELSE LET part     == Head(parts)
             segments == Split(part, ":")
             next ==
                 IF ~StartsWith(part, Txt_gpu) THEN acc
                 ELSE IF Len(segments) = 2
                      THEN IF IsDigit(segments[2])
                           THEN [acc EXCEPT !.count = ParseNat(segments[2])]
                           ELSE acc
                 ELSE IF Len(segments) = 3
                      THEN [model |-> segments[2],
                            count |-> IF IsDigit(segments[3])
                                      THEN ParseNat(segments[3]) ELSE acc.count]
                 ELSE acc
         IN  GresParts(Tail(parts), next)

parse_slurm_gres(gres_str) ==
    IF ~Contains(gres_str, Txt_gpu)
    THEN [model |-> Txt_Unknown_GPU, count |-> 0]
    ELSE LET r == GresParts(Split(gres_str, ","),
                            [model |-> Txt_Unknown_GPU, count |-> 0])
         IN  [model |-> clean_gpu_name(r.model), count |-> r.count]

\* the "good" entries appended for the indices a probe reported
GoodSlots(model, found) ==
    [i \in DOMAIN found |-> [model |-> model, index |-> found[i], state |-> "good"]]

\* for i in range(n): if i not in found_set: append a "bad" entry, from i on
RECURSIVE MissingSlots(_, _, _, _)
MissingSlots(model, i, n, found_set) ==
    IF i >= n THEN <<>>
    ELSE (IF i \notin found_set
          THEN <<[model |-> model, index |-> Str(i), state |-> "bad"]>>
          ELSE <<>>)
         \o MissingSlots(model, i + 1, n, found_set)

\* for i in range(count): append a "bad" entry
FillSlots(model, count) == MissingSlots(model, 0, count, {})

\* sort key of old4 for an index that is not all digits
SortFallbackKey == 999

SortKey(g) == IF IsDigit(g.index) THEN ParseNat(g.index) ELSE SortFallbackKey

\* list.sort(key=...): stable
RECURSIVE SortGpus(_)
SortGpus(gpus) ==
    IF gpus = <<>> THEN <<>>
    ELSE LET n    == Len(gpus)
             rest == SortGpus(SubSeq(gpus, 1, n - 1))
             g    == gpus[n]
             k    == Cardinality({i \in DOMAIN rest : SortKey(rest[i]) <= SortKey(g)})
         IN  SubSeq(rest, 1, k) \o <<g>> \o SubSeq(rest, k + 1, Len(rest))

\* organize_data_by_type: model -> node -> gpus, nodes without gpus left out
organize_data_by_type(raw_data) ==
    LET withGpus == {n \in DOMAIN raw_data : raw_data[n].gpus # <<>>}
        models   == {raw_data[n].gpus[1].model : n \in withGpus}
    IN  [m \in models |->
            [n \in {x \in withGpus : raw_data[x].gpus[1].model = m} |->
                raw_data[n].gpus]]

-----------------------------------------------------------------------------
(* Inputs: what the external collaborators may return *)

Scripts == {"old4", "cur", "old7"}

\* HARDWARE_DEFINITIONS, cut down to one pattern of two nodes
HARDWARE_DEFINITIONS == << [pattern |-> "n[1-2]", model |-> Txt_H100, count |-> 2] >>

\* A line of the sinfo output: n is the number of '|'-separated parts
\* (0 for a blank line); nodes, state and gres are parts 0, 1 and 2.
BlankLine == [n |-> 0, nodes |-> "", state |-> <<>>, gres |-> <<>>]

SampleLines ==
    { [n |-> 3, nodes |-> "n[1-2]", state |-> Txt_down,      gres |-> Txt_gpu_h100_2],
      [n |-> 3, nodes |-> "n1",     state |-> Txt_idle,      gres |-> Txt_gpu_2],
      [n |-> 3, nodes |-> "n3",     state |-> Txt_mix,       gres |-> Txt_mic_1],
      [n |-> 3, nodes |-> "n3",     state |-> Txt_drng,      gres |-> Txt_mic_1],
      [n |-> 2, nodes |-> "n2",     state |-> Txt_idle_star, gres |-> <<>>],
      [n |-> 2, nodes |-> "n 3",    state |-> Txt_down,      gres |-> <<>>] }

\* stdout.split('\n') of the stripped sinfo output: '' splits into one blank line
Listings == {IF l = <<>> THEN <<BlankLine>> ELSE l : l \in SeqsUpTo(SampleLines, MaxRecords)}

\* A line of the probe output: n comma-separated parts, of which cur reads
\* the model name and the index; old4 queries the index alone.
IndexTokens == {<<"0">>, <<"1">>, <<"2">>, <<"x">>}

ProbeLinesOf(s) ==
    IF s = "old4"
    THEN {[n |-> 1, name |-> <<>>, index |-> t] : t \in IndexTokens}
    ELSE {[n |-> 3, name |-> Txt_NVIDIA_H100, index |-> t] : t \in {<<"0">>, <<"1">>}}
         \cup {[n |-> 1, name |-> <<>>, index |-> <<"x">>]}

\* run_command(nvidia_cmd): the return code and the stripped stdout, as lines
ProbeOutcomes(s) ==
    {[rc |-> 0, out |-> o] : o \in SeqsUpTo(ProbeLinesOf(s), MaxProbeLines)}
    \cup {[rc |-> r, out |-> <<>>] : r \in ReturnCodes \ {0}}

-----------------------------------------------------------------------------
(* Initial state: a script is started *)

Init ==
    /\ script \in Scripts
    /\ pc = CASE script = "old4" -> "build_hardware_map"
              [] script = "cur"  -> "sinfo"
              [] OTHER           -> "scontrol"
    /\ hardware_map = EmptyMap
    /\ listing = <<>>
    /\ lines = <<>>
    /\ pending = <<>>
    /\ node_state = <<>>
    /\ gres = <<>>
    /\ processed_nodes = {}
    /\ data = EmptyMap
    /\ srun_log = <<>>
    /\ last = [node |-> "", state |-> <<>>, model |-> <<>>, expected |-> 0, attempted |-> FALSE,
               rc |-> -1, out |-> <<>>]
    /\ warnings = {}
    /\ exit_status = -1
    /\ image = [made |-> FALSE, organized |-> EmptyMap]
    /\ expanded = [expr |-> "", rc |-> -1, names |-> <<>>]
    /\ raw_output = <<>>
    /\ nodes = <<>>
    /\ feature_groups = EmptyMap
    /\ expected_counts = EmptyMap
    /\ idx = 0
    /\ report = <<>>
    /\ saved = [made |-> FALSE, rows |-> <<>>]

-----------------------------------------------------------------------------
(* old4 / cur: get_gpu_data and the main block around it *)

\* The loops of build_hardware_map, given the return code of each expansion.
RECURSIVE BuildMap(_, _, _)
BuildMap(defs, rcs, mapping_) ==
    IF defs = <<>> THEN mapping_
    ELSE LET d     == Head(defs)
             names == old4_expand_hostlist(d.pattern, Head(rcs))
             m     == [x \in DOMAIN mapping_ \cup Range(names) |->
                          IF x \in Range(names)
                          THEN [model |-> d.model, count |-> d.count]
                          ELSE mapping_[x]]
         IN  BuildMap(Tail(defs), Tail(rcs), m)

build_hardware_map ==
    /\ script = "old4"
    /\ pc = "build_hardware_map"
    /\ \E rcs \in [DOMAIN HARDWARE_DEFINITIONS -> ReturnCodes] :
          LET n == Len(HARDWARE_DEFINITIONS)
              e == HARDWARE_DEFINITIONS[n].pattern
          IN  /\ hardware_map' = BuildMap(HARDWARE_DEFINITIONS, rcs, EmptyMap)
              /\ expanded' = [expr |-> e, rc |-> rcs[n],
                              names |-> old4_expand_hostlist(e, rcs[n])]
    /\ pc' = "sinfo"
    /\ UNCHANGED <<script, listing, lines, pending, node_state, gres, processed_nodes, data,
                   srun_log, last, warnings, exit_status, image>>
    /\ UNCHANGED peerVars

\* sinfo fails or times out: sys.exit(1)
SinfoFails ==
    /\ script \in {"old4", "cur"}
    /\ pc = "sinfo"
    /\ \E rc \in ReturnCodes \ {0} :
          /\ pc' = "exited"
          /\ exit_status' = 1
    /\ UNCHANGED <<script>>
    /\ UNCHANGED gpuVars
    /\ UNCHANGED peerVars

\* sinfo returns rc 0 and some listing, possibly empty
SinfoReturns ==
    /\ script \in {"old4", "cur"}
    /\ pc = "sinfo"
    /\ \E l \in Listings : listing' = l /\ lines' = l
    /\ pc' = "lines"
    /\ UNCHANGED <<script, hardware_map, pending, node_state, gres, processed_nodes,
                   data, srun_log, last, warnings, exit_status, image, expanded>>
    /\ UNCHANGED peerVars

\* parts a line needs: '%N|%t' in old4, '%N|%t|%G' in cur
PartsNeeded == IF script = "old4" THEN 2 ELSE 3

\* a blank or short line: continue
SkipLine ==
    /\ pc = "lines"
    /\ pending = <<>>
    /\ lines # <<>>
    /\ Head(lines).n < PartsNeeded
    /\ lines' = Tail(lines)
    /\ UNCHANGED <<script, pc, hardware_map, listing, pending, node_state, gres,
                   processed_nodes, data, srun_log, last, warnings, exit_status, image, expanded>>
    /\ UNCHANGED peerVars

\* the next line: its fields and the expansion of its node list
ExpandLine ==
    /\ pc = "lines"
    /\ pending = <<>>
    /\ lines # <<>>
    /\ Head(lines).n >= PartsNeeded
    /\ \E rc \in ReturnCodes :
          LET e     == Head(lines).nodes
              names == IF script = "old4" THEN old4_expand_hostlist(e, rc)
                       ELSE expand_hostlist(e, rc)
          IN  /\ pending' = names
              /\ expanded' = [expr |-> e, rc |-> rc, names |-> names]
    /\ node_state' = Head(lines).state
    /\ gres' = IF script = "cur" THEN Head(lines).gres ELSE gres
    /\ lines' = Tail(lines)
    /\ UNCHANGED <<script, pc, hardware_map, listing, processed_nodes, data, srun_log, last,
                   warnings, exit_status, image>>
    /\ UNCHANGED peerVars

\* "Check accessibility" of old4: no "down", "drng", "drain" or "*" in the tag
old4_is_accessible(state) ==
    ~\E x \in {Txt_down, Txt_drng, Txt_drain, Txt_star} : Contains(Lower(state), x)

\* the same test with the "down" case forgotten
CurAccessibleNoDown(state) ==
    ~(\/ Contains(Lower(state), Txt_drng)
      \/ Contains(Lower(state), Txt_drain))

\* "Identify if node is fundamentally accessible" of cur
cur_is_accessible(state) ==
    ~(\/ Contains(Lower(state), Txt_down)
      \/ Contains(Lower(state), Txt_drng)
      \/ Contains(Lower(state), Txt_drain))

\* gpu_rc == 0 and gpu_stdout
smi_success(accessible, o) == accessible /\ o.rc = 0 /\ o.out # <<>>

\* found_indices of old4: the stripped non-empty lines of the probe output
found_indices(out) == [i \in DOMAIN out |-> out[i].index]

\* old4, STRATEGY 1 on a successful probe: set(map(int, found_indices)) raises
\* ValueError on a line that int() rejects, after the good entries were appended
Old4Raises(expected_count, out) ==
    /\ Len(found_indices(out)) < expected_count
    /\ \E i \in DOMAIN out : ~IntParses(found_indices(out)[i])

\* old4, STRATEGY 1 on a successful probe: found entries, then missing ones
Old4Query(expected_model, expected_count, out) ==
    LET found == found_indices(out)
        good  == GoodSlots(expected_model, found)
    IN  IF Old4Raises(expected_count, out) THEN good
        ELSE IF Len(found) < expected_count
        THEN good \o MissingSlots(expected_model, 0, expected_count,
                                  {ToInt(found[i]) : i \in DOMAIN found})
        ELSE good

\* the same fill with range(1, expected_count)
Old4FillFromOne(expected_model, expected_count) ==
    IF expected_count > 0
    THEN MissingSlots(expected_model, 1, expected_count, {})
    ELSE <<>>

\* old4, STRATEGY 2: fill from the map
Old4Fill(expected_model, expected_count) ==
    IF expected_count > 0 THEN FillSlots(expected_model, expected_count) ELSE <<>>

\* hardware_map lookup of old4, with its fallback
Old4Expected(node_name) ==
    IF node_name \in DOMAIN hardware_map THEN hardware_map[node_name]
    ELSE [model |-> Txt_Unknown_New_GPU, count |-> 0]

\* the probe is issued only for an accessible node
OutcomesFor(accessible) ==
    IF accessible THEN ProbeOutcomes(script) ELSE {[rc |-> -1, out |-> <<>>]}

\* old4: a node name seen before: continue
Old4SkipProcessed ==
    /\ script = "old4"
    /\ pc = "lines"
    /\ pending # <<>>
    /\ Head(pending) \in processed_nodes
    /\ pending' = Tail(pending)
    /\ UNCHANGED <<script, pc, hardware_map, listing, lines, node_state, gres,
                   processed_nodes, data, srun_log, last, warnings, exit_status, image, expanded>>
    /\ UNCHANGED peerVars

\* old4: one iteration of the node loop
Old4Node ==
    /\ script = "old4"
    /\ pc = "lines"
    /\ pending # <<>>
    /\ Head(pending) \notin processed_nodes
    /\ LET node_name  == Head(pending)
           expected   == Old4Expected(node_name)
           accessible == old4_is_accessible(node_state)
       IN  \E o \in OutcomesFor(accessible) :
             LET success == smi_success(accessible, o)
                 raises  == success /\ Old4Raises(expected.count, o.out)
                 gpus    == IF success
                            THEN Old4Query(expected.model, expected.count, o.out)
                            ELSE Old4Fill(expected.model, expected.count)
             IN  /\ processed_nodes' = processed_nodes \cup {node_name}
                 /\ last' = [node |-> node_name, state |-> node_state,
                             model |-> expected.model,
                             expected |-> expected.count, attempted |-> accessible,
                             rc |-> o.rc, out |-> o.out]
                 /\ srun_log' = IF accessible THEN Append(srun_log, node_name)
                                ELSE srun_log
                 /\ warnings' = IF accessible /\ ~success
                                THEN warnings \cup {[node |-> node_name,
                                                     kind |-> "srun failed"]}
                                ELSE warnings
                 /\ data' = Put(data, node_name,
                                [slurm_state |-> node_state,
                                 gpus |-> IF raises THEN gpus ELSE SortGpus(gpus)])
                 /\ IF raises
                    THEN /\ pc' = "crashed"
                         /\ exit_status' = 1
                         /\ UNCHANGED pending
                    ELSE /\ pending' = Tail(pending)
                         /\ UNCHANGED <<pc, exit_status>>
    /\ UNCHANGED <<script, hardware_map, listing, lines, node_state, gres, image, expanded>>
    /\ UNCHANGED peerVars

\* cur, STRATEGY A on a successful probe: one entry per line of three parts
CurQuery(out) ==
    LET ok == SelectSeq(out, LAMBDA l : l.n = 3)
    IN  [i \in DOMAIN ok |-> [model |-> clean_gpu_name(ok[i].name),
                              index |-> ok[i].index,
                              state |-> "good"]]

\* cur, STRATEGY B: fall back to the GRES descriptor
CurFill(gres_str) ==
    LET r == parse_slurm_gres(gres_str)
    IN  IF r.count > 0 THEN FillSlots(r.model, r.count) ELSE <<>>

\* cur: one iteration of the node loop
CurNode ==
    /\ script = "cur"
    /\ pc = "lines"
    /\ pending # <<>>
    /\ LET node_name  == Head(pending)
           accessible == cur_is_accessible(node_state)
       IN  \E o \in OutcomesFor(accessible) :
             LET success == smi_success(accessible, o)
             IN  /\ last' = [node |-> node_name, state |-> node_state,
                             model |-> parse_slurm_gres(gres).model,
                             expected |-> parse_slurm_gres(gres).count,
                             attempted |-> accessible, rc |-> o.rc, out |-> o.out]
                 /\ srun_log' = IF accessible THEN Append(srun_log, node_name)
                                ELSE srun_log
                 /\ warnings' = IF ~success /\ parse_slurm_gres(gres).count = 0
                                THEN warnings \cup {[node |-> node_name,
                                                     kind |-> "no GRES GPU info"]}
                                ELSE warnings
                 /\ data' = Put(data, node_name,
                                [slurm_state |-> node_state,
                                 gpus |-> IF success THEN CurQuery(o.out)
                                          ELSE CurFill(gres)])
    /\ pending' = Tail(pending)
    /\ UNCHANGED <<script, pc, hardware_map, listing, lines, node_state, gres,
                   processed_nodes, exit_status, image, expanded>>
    /\ UNCHANGED peerVars

\* the line loop is over: return data
ReturnData ==
    /\ script \in {"old4", "cur"}
    /\ pc = "lines"
    /\ pending = <<>>
    /\ lines = <<>>
    /\ pc' = "returned"
    /\ UNCHANGED <<script, exit_status>>
    /\ UNCHANGED gpuVars
    /\ UNCHANGED peerVars

\* the rest of the main block: organize, draw (nothing if there is no data), finish
MakeArtifacts ==
    /\ script \in {"old4", "cur"}
    /\ pc = "returned"
    /\ LET organized == organize_data_by_type(data)
       IN  image' = [made |-> DOMAIN organized # {}, organized |-> organized]
    /\ pc' = "done"
    /\ exit_status' = 0
    /\ UNCHANGED <<script, hardware_map, listing, lines, pending, node_state, gres,
                   processed_nodes, data, srun_log, last, warnings, expanded>>
    /\ UNCHANGED peerVars

GpuNext ==
    \/ build_hardware_map
    \/ SinfoFails
    \/ SinfoReturns
    \/ SkipLine
    \/ ExpandLine
    \/ Old4SkipProcessed
    \/ Old4Node
    \/ CurNode
    \/ ReturnData
    \/ MakeArtifacts

-----------------------------------------------------------------------------
(* old7: generate_report (peer-mode comparison) *)

\* longest scontrol output, in node blocks
MaxBlocks == 3

Txt_gpu_colon == <<"g", "p", "u", ":">>
Txt_gpu_8 == <<"g", "p", "u", ":", "8">>
Txt_gpu_4 == <<"g", "p", "u", ":", "4">>
Txt_null == <<"(", "n", "u", "l", "l", ")">>

\* node names, in the order scontrol lists them, and in sorted order
BlockNames == <<"n2", "n1", "n3", "n4">>
SortedNames == <<"n1", "n2", "n3", "n4">>

\* AvailableFeatures of a block ("" when the block has no such field)
FeatureTexts == {"RTX", "L40S", ""}

\* the text after "Gres=" on its line (empty when the block has no such line)
GresTexts == {Txt_gpu_8, Txt_gpu_4, Txt_gpu_rtx2080ti_8, Txt_null}

\* what `scontrol show node` may print: up to MaxBlocks blocks
RawOutputs ==
    UNION {{[i \in 1..k |-> [name |-> BlockNames[i], features |-> f[i], gres |-> g[i]]] :
               f \in [1..k -> FeatureTexts], g \in [1..k -> GresTexts]} :
           k \in 0..MaxBlocks}

IsDigitChar(c) == c \in Range(DigitChars)

\* re.search(r"Gres=.*gpu:.*?:?(\d+)", block): the places of the "gpu:" the
\* greedy ".*" may stop at, i.e. those with a digit somewhere after them
GpuStarts(t) ==
    {p \in 1..Len(t) :
        /\ p + 3 <= Len(t)
        /\ SubSeq(t, p, p + 3) = Txt_gpu_colon
        /\ \E q \in (p + 4)..Len(t) : IsDigitChar(t[q])}

\* the maximal run of digits of t that starts at q
DigitRun(t, q) ==
    LET e == CHOOSE e \in q..Len(t) :
                 /\ \A j \in q..e : IsDigitChar(t[j])
                 /\ (e = Len(t) \/ ~IsDigitChar(t[e + 1]))
    IN  SubSeq(t, q, e)

\* group(1) of the first pattern: greedy ".*" takes the last "gpu:", the lazy
\* ".*?" stops at the first digit after it, "\d+" takes the whole run
ComplexMatch(t) ==
    LET p == CHOOSE p \in GpuStarts(t) : \A r \in GpuStarts(t) : r <= p
        q == CHOOSE q \in (p + 4)..Len(t) :
                 IsDigitChar(t[q]) /\ \A j \in (p + 4)..(q - 1) : ~IsDigitChar(t[j])
    IN  DigitRun(t, q)

\* re.search(r"Gres=gpu:(\d+)", block) matches
SimpleMatches(t) ==
    StartsWith(t, Txt_gpu_colon) /\ Len(t) > 4 /\ IsDigitChar(t[5])

\* gpu_count of parse_nodes
gpu_count(t) ==
    IF GpuStarts(t) # {} THEN ParseNat(ComplexMatch(t))
    ELSE IF SimpleMatches(t) THEN ParseNat(DigitRun(t, 5))
    ELSE 0

\* parse_nodes: the blocks with a positive gpu count
parse_nodes(raw) ==
    LET all == [i \in DOMAIN raw |->
                   [name      |-> raw[i].name,
                    features  |-> IF raw[i].features = "" THEN "Unknown"
                                  ELSE raw[i].features,
                    gpu_count |-> gpu_count(raw[i].gres)]]
    IN  SelectSeq(all, LAMBDA nd : nd.gpu_count > 0)

\* nodes.sort(key=lambda x: x['name']): stable
NameRank(name) == IndexOf(SortedNames, name)

RECURSIVE SortByName(_)
SortByName(ns) ==
    IF ns = <<>> THEN <<>>
    ELSE LET n    == Len(ns)
             rest == SortByName(SubSeq(ns, 1, n - 1))
             k    == Cardinality({i \in DOMAIN rest :
                                     NameRank(rest[i].name) <= NameRank(ns[n].name)})
         IN  SubSeq(rest, 1, k) \o <<ns[n]>> \o SubSeq(rest, k + 1, Len(rest))

\* keys of feature_groups in insertion order
RECURSIVE FeatureOrder(_)
FeatureOrder(ns) ==
    IF ns = <<>> THEN <<>>
    ELSE LET before == FeatureOrder(SubSeq(ns, 1, Len(ns) - 1))
             f      == ns[Len(ns)].features
         IN  IF f \in Range(before) THEN before ELSE Append(before, f)

\* counts.count(c)
CountOf(counts, c) == Cardinality({i \in DOMAIN counts : counts[i] = c})

\* set(counts) as CPython builds it: a table of 8 slots (no resize below 5
\* distinct elements), an int hashes to itself, a collision moves on to
\* (5*i + 1 + perturb) mod 8 with perturb shifted right by 5 each time.
\* A slot holds -1 while empty.
RECURSIVE SetSlot(_, _, _, _)
SetSlot(table, key, i, perturb) ==
    IF table[i] = -1 \/ table[i] = key THEN i
    ELSE SetSlot(table, key, (i * 5 + 1 + (perturb \div 32)) % 8, perturb \div 32)

RECURSIVE SetTable(_)
SetTable(counts) ==
    IF counts = <<>> THEN [i \in 0..7 |-> -1]
    ELSE LET table == SetTable(SubSeq(counts, 1, Len(counts) - 1))
             key   == counts[Len(counts)]
         IN  [table EXCEPT ![SetSlot(table, key, key % 8, key)] = key]

\* the first count of the list, whatever its frequency
ModeFirstSeen(counts) == counts[1]

\* the largest frequency itself, instead of the count that has it
ModeReturningFrequency(counts) ==
    LET best == CHOOSE b \in {CountOf(counts, c) : c \in Range(counts)} :
                    \A c \in Range(counts) : CountOf(counts, c) <= b
    IN  best

\* max(set(counts), key=counts.count): the first element, in the set's
\* iteration order (slot order), whose count is the largest
Mode(counts) ==
    LET table == SetTable(counts)
        best  == CHOOSE b \in {CountOf(counts, c) : c \in Range(counts)} :
                     \A c \in Range(counts) : CountOf(counts, c) <= b
        slot  == CHOOSE i \in 0..7 :
                     /\ table[i] # -1
                     /\ CountOf(counts, table[i]) = best
                     /\ \A j \in 0..(i - 1) :
                            table[j] = -1 \/ CountOf(counts, table[j]) < best
    IN  table[slot]

\* the status with "<=" for "<"
ClassifyOffByOne(actual, expected) ==
    IF actual <= expected THEN "DEGRADED"
    ELSE IF actual > expected THEN "OVER"
    ELSE "OK"

\* "Determine Status" of generate_report and save_cluster_image
Classify(actual, expected) ==
    IF actual < expected THEN "DEGRADED"
    ELSE IF actual > expected THEN "OVER"
    ELSE "OK"

Row(node) ==
    [name     |-> node.name,
     features |-> node.features,
     status   |-> Classify(node.gpu_count, expected_counts[node.features]),
     actual   |-> node.gpu_count,
     expected |-> expected_counts[node.features]]

\* get_slurm_data: the output of scontrol, or "" on CalledProcessError
get_slurm_data ==
    /\ script = "old7"
    /\ pc = "scontrol"
    /\ \E ok \in BOOLEAN, out \in RawOutputs :
          raw_output' = IF ok THEN out ELSE <<>>
    /\ pc' = "parse_nodes"
    /\ UNCHANGED <<script, exit_status, nodes, feature_groups, expected_counts, idx,
                   report, saved>>
    /\ UNCHANGED gpuVars

\* nodes = parse_nodes(raw_data); if not nodes: return
ParseNodes ==
    /\ script = "old7"
    /\ pc = "parse_nodes"
    /\ nodes' = parse_nodes(raw_output)
    /\ IF nodes' = <<>>
       THEN pc' = "done" /\ exit_status' = 0
       ELSE pc' = "learning" /\ UNCHANGED exit_status
    /\ UNCHANGED <<script, raw_output, feature_groups, expected_counts, idx, report, saved>>
    /\ UNCHANGED gpuVars

\* learning phase, one node: feature_groups[features].append(gpu_count)
GroupNode ==
    /\ script = "old7"
    /\ pc = "learning"
    /\ LET node == nodes[idx + 1]
           old  == IF node.features \in DOMAIN feature_groups
                   THEN feature_groups[node.features] ELSE <<>>
       IN  feature_groups' = Put(feature_groups, node.features,
                                 Append(old, node.gpu_count))
    /\ IF idx + 1 = Len(nodes)
       THEN pc' = "modes" /\ idx' = 0
       ELSE idx' = idx + 1 /\ UNCHANGED pc
    /\ UNCHANGED <<script, exit_status, raw_output, nodes, expected_counts, report, saved>>
    /\ UNCHANGED gpuVars

\* learning phase, one group: expected_counts[feature] = mode; after the last
\* group the nodes are sorted for the text report
ComputeMode ==
    /\ script = "old7"
    /\ pc = "modes"
    /\ LET feature == FeatureOrder(nodes)[idx + 1]
       IN  expected_counts' = Put(expected_counts, feature, Mode(feature_groups[feature]))
    /\ IF idx + 1 = Len(FeatureOrder(nodes))
       THEN pc' = "reporting" /\ idx' = 0 /\ nodes' = SortByName(nodes)
       ELSE idx' = idx + 1 /\ UNCHANGED <<pc, nodes>>
    /\ UNCHANGED <<script, exit_status, raw_output, feature_groups, report, saved>>
    /\ UNCHANGED gpuVars

\* the reporting loop taking the node it reports as the new truth for its group
ReportNodeAndRelearn ==
    /\ script = "old7"
    /\ pc = "reporting"
    /\ report' = Append(report, Row(nodes[idx + 1]))
    /\ expected_counts' = Put(expected_counts, nodes[idx + 1].features,
                              nodes[idx + 1].gpu_count)
    /\ IF idx + 1 = Len(nodes)
       THEN pc' = "save_cluster_image" /\ idx' = 0
       ELSE idx' = idx + 1 /\ UNCHANGED pc
    /\ UNCHANGED <<script, exit_status, raw_output, nodes, feature_groups, saved>>
    /\ UNCHANGED gpuVars

\* text reporting phase, one node
ReportNode ==
    /\ script = "old7"
    /\ pc = "reporting"
    /\ report' = Append(report, Row(nodes[idx + 1]))
    /\ IF idx + 1 = Len(nodes)
       THEN pc' = "save_cluster_image" /\ idx' = 0
       ELSE idx' = idx + 1 /\ UNCHANGED pc
    /\ UNCHANGED <<script, exit_status, raw_output, nodes, feature_groups,
                   expected_counts, saved>>
    /\ UNCHANGED gpuVars

\* image generation phase: sort, classify and draw every node; the run ends
save_cluster_image ==
    /\ script = "old7"
    /\ pc = "save_cluster_image"
    /\ nodes' = SortByName(nodes)
    /\ saved' = [made |-> TRUE, rows |-> [i \in DOMAIN nodes' |-> Row(nodes'[i])]]
    /\ pc' = "done"
    /\ exit_status' = 0
    /\ UNCHANGED <<script, raw_output, feature_groups, expected_counts, idx, report>>
    /\ UNCHANGED gpuVars

PeerNext ==
    \/ get_slurm_data
    \/ ParseNodes
    \/ GroupNode
    \/ ComputeMode
    \/ ReportNode
    \/ save_cluster_image

-----------------------------------------------------------------------------
(* Specifications *)

Next == GpuNext \/ PeerNext

Spec == Init /\ [][Next]_vars

\* the two get_gpu_data scripts
InitGpu == Init /\ script \in {"old4", "cur"}
SpecGpu == InitGpu /\ [][GpuNext]_vars

\* parse_slurm_gres on descriptors of up to MaxSegments segments: cur is about
\* to reconcile node n1, which a line of the listing gave as down or draining
\* with such a descriptor, so that STRATEGY B parses it
MaxSegments == 3

Txt_gpumem_1 == <<"g", "p", "u", "m", "e", "m", ":", "1">>

\* segments of a descriptor; gpu says whether the segment is gpu:<count> or
\* gpu:<model>:<count>, and count is the <count> it holds
GresSegments ==
    { [text |-> Txt_gpu_2,           gpu |-> TRUE,  count |-> 2],
      [text |-> Txt_gpu_h100_2,      gpu |-> TRUE,  count |-> 2],
      [text |-> Txt_gpu_rtx2080ti_8, gpu |-> TRUE,  count |-> 8],
      [text |-> Txt_mic_1,           gpu |-> FALSE, count |-> 0],
      [text |-> Txt_gpumem_1,        gpu |-> FALSE, count |-> 0] }

\* ",".join(segments)
RECURSIVE JoinSegments(_)
JoinSegments(segs) ==
    IF segs = <<>> THEN <<>>
    ELSE IF Len(segs) = 1 THEN segs[1].text
    ELSE segs[1].text \o <<",">> \o JoinSegments(Tail(segs))

Descriptors == SeqsUpTo(GresSegments, MaxSegments) \ {<<>>}

InitGres ==
    /\ script = "cur"
    /\ pc = "lines"
    /\ \E d \in Descriptors, st \in {Txt_down, Txt_drng} :
          /\ listing = <<[n |-> 3, nodes |-> "n1", state |-> st, gres |-> JoinSegments(d)]>>
          /\ node_state = st
          /\ gres = JoinSegments(d)
    /\ lines = <<>>
    /\ pending = <<"n1">>
    /\ expanded = [expr |-> "n1", rc |-> 0, names |-> <<"n1">>]
    /\ hardware_map = EmptyMap
    /\ processed_nodes = {}
    /\ data = EmptyMap
    /\ srun_log = <<>>
    /\ last = [node |-> "", state |-> <<>>, model |-> <<>>, expected |-> 0, attempted |-> FALSE,
               rc |-> -1, out |-> <<>>]
    /\ warnings = {}
    /\ exit_status = -1
    /\ image = [made |-> FALSE, organized |-> EmptyMap]
    /\ raw_output = <<>>
    /\ nodes = <<>>
    /\ feature_groups = EmptyMap
    /\ expected_counts = EmptyMap
    /\ idx = 0
    /\ report = <<>>
    /\ saved = [made |-> FALSE, rows |-> <<>>]

GresNext == CurNode \/ ReturnData \/ MakeArtifacts

SpecGres == InitGres /\ [][GresNext]_vars

\* the peer-mode script
InitPeer == Init /\ script = "old7"
SpecPeer == InitPeer /\ [][PeerNext]_vars

-----------------------------------------------------------------------------
(* Vocabulary of the properties *)

\* outcome of the probe of the node reconciled last
Reconciled   == last.node # "" /\ pc # "crashed"
Inaccessible == last.node # "" /\ ~last.attempted
Timeout      == last.node # "" /\ last.attempted /\ last.rc = TimeoutRc
Failure      == /\ last.node # ""
                /\ last.attempted
                /\ \/ last.rc \notin {0, TimeoutRc}
                   \/ last.rc = 0 /\ last.out = <<>>
Success      == last.node # "" /\ last.attempted /\ last.rc = 0 /\ last.out # <<>>

\* the slots recorded for the node reconciled last
LastGpus == data[last.node].gpus

IndexSet(gpus) == {gpus[i].index : i \in DOMAIN gpus}
ExpectedIndices(n) == {Str(i) : i \in 0..(n - 1)}
AllBad(gpus) == \A i \in DOMAIN gpus : gpus[i].state = "bad"

\* the indices a successful probe reported, as integers
Observed == {ToInt(last.out[i].index) :
                i \in {j \in DOMAIN last.out : IntParses(last.out[j].index)}}

\* state tags that say down or draining
DownOrDraining(tag) == tag \in {Txt_down, Txt_drng, Txt_drain}

\* node names a listing line may stand for (Sent is the expression the script
\* hands to scontrol), and the lines the script reads
AllNames == {"n1", "n2", "n3", "n[1-2]"}
Sent(expr) == IF script = "old4" THEN NoSpaces(expr) ELSE expr
LineYields(line) == {Sent(line.nodes)} \cup Range(Hostnames(Sent(line.nodes)))
Processable(line) == line.n >= PartsNeeded
LinesOf(x) == {i \in DOMAIN listing : Processable(listing[i]) /\ x \in LineYields(listing[i])}

\* x is listed, and every line that lists it says down or draining
KnownDown(x) ==
    /\ LinesOf(x) # {}
    /\ \A i \in LinesOf(x) : DownOrDraining(listing[i].state)

\* the expected count of x: the truth map in old4, the GRES of a line in cur
HasExpected(x, n) ==
    IF script = "old4" THEN Old4Expected(x).count = n
    ELSE \E i \in LinesOf(x) : parse_slurm_gres(listing[i].gres).count = n

\* the listing collaborator failed or returned nothing
ListingFailedOrEmpty ==
    \/ /\ script \in {"old4", "cur"}
       /\ \/ pc = "exited"
          \/ /\ pc \in {"lines", "returned", "done", "crashed"}
             /\ \A i \in DOMAIN listing : listing[i].n = 0
    \/ /\ script = "old7"
       /\ pc # "scontrol"
       /\ raw_output = <<>>

\* old7: rows reported or drawn, and the nodes of a signature with a count
Rows == Range(report) \cup Range(saved.rows)
NodeCount(f, c) ==
    Cardinality({i \in DOMAIN nodes : nodes[i].features = f /\ nodes[i].gpu_count = c})
GroupSize(f) == Cardinality({i \in DOMAIN nodes : nodes[i].features = f})
CountsOf(f) == {nodes[i].gpu_count : i \in {j \in DOMAIN nodes : nodes[j].features = f}}

-----------------------------------------------------------------------------
(* Properties *)

\* C1: after a node with expected count N > 0 is reconciled, the indices of
\* its slots are exactly 0..N-1, whatever the probe returned.
C1_PaddingInvariant ==
    (Reconciled /\ last.expected > 0) =>
        IndexSet(LastGpus) = ExpectedIndices(last.expected)

\* C2: a reported status is OK exactly when actual = expected, DEGRADED
\* exactly when actual < expected, never both; actual and expected are the
\* node's own count and the expected count of its signature.
C2_StatusMatchesCounts ==
    \A r \in Rows :
        /\ (r.status = "OK") <=> (r.actual = r.expected)
        /\ (r.status = "DEGRADED") <=> (r.actual < r.expected)
        /\ ~(r.status = "OK" /\ r.status = "DEGRADED")
        /\ r.expected = expected_counts[r.features]
        /\ \E i \in DOMAIN nodes :
              /\ nodes[i].name = r.name
              /\ nodes[i].features = r.features
              /\ nodes[i].gpu_count = r.actual

C2_Witness ==
    /\ pc = "done"
    /\ saved.made
    /\ \E r1, r2 \in Range(report) : r1.status = "DEGRADED" /\ r2.status = "OK"
    /\ \E r \in Range(saved.rows) : r.status = "DEGRADED"

\* C3: old4, probe succeeded with observed indices S and expected count N:
\* every i in 0..N-1 has exactly one slot, good if i is in S and bad otherwise.
C3_SuccessGoodOrBad ==
    (script = "old4" /\ Success /\ pc # "crashed") =>
        \A i \in 0..(last.expected - 1) :
            /\ Cardinality({k \in DOMAIN LastGpus : LastGpus[k].index = Str(i)}) = 1
            /\ \A k \in DOMAIN LastGpus :
                  LastGpus[k].index = Str(i) =>
                      LastGpus[k].state = IF i \in Observed THEN "good" ELSE "bad"

\* C4: probe outcome inaccessible, failure or timeout: the node has exactly
\* expectedCount slots, with indices 0..expectedCount-1, all bad.
C4_NoProbeResultAllBad ==
    (Inaccessible \/ Failure \/ Timeout) =>
        /\ Len(LastGpus) = last.expected
        /\ \A i \in DOMAIN LastGpus :
              LastGpus[i].index = Str(i - 1) /\ LastGpus[i].state = "bad"

C4_Witness ==
    /\ Timeout
    /\ last.expected = 2
    /\ Len(LastGpus) = 2
    /\ AllBad(LastGpus)

\* C5: a node that every line listing it reports down or draining is never
\* probed in the run, and its slots are its expected slots, all bad.
C5_DownNeverProbed ==
    \A x \in AllNames :
        KnownDown(x) =>
            /\ x \notin Range(srun_log)
            /\ x \in DOMAIN data =>
                  /\ AllBad(data[x].gpus)
                  /\ HasExpected(x, Len(data[x].gpus))
                  /\ IndexSet(data[x].gpus) = ExpectedIndices(Len(data[x].gpus))

C5_Witness ==
    /\ pc = "done"
    /\ script = "cur"
    /\ KnownDown("n2")
    /\ "n2" \in DOMAIN data
    /\ Len(data["n2"].gpus) = 2
    /\ srun_log # <<>>

\* C6: the expected count of a signature is a mode of the counts of the nodes
\* with that signature; when they all report one count, it is that count,
\* for every member.
C6_ExpectedIsMode ==
    \A f \in DOMAIN expected_counts :
        /\ NodeCount(f, expected_counts[f]) > 0
        /\ \A c \in CountsOf(f) : NodeCount(f, c) <= NodeCount(f, expected_counts[f])
        /\ \A c \in CountsOf(f) :
              CountsOf(f) = {c} =>
                  /\ expected_counts[f] = c
                  /\ \A r \in Rows : r.features = f => r.expected = c

C6_Witness ==
    /\ pc = "done"
    /\ \E f \in DOMAIN expected_counts :
          /\ NodeCount(f, 8) = 2
          /\ NodeCount(f, 4) = 1
          /\ expected_counts[f] = 8
          /\ \E r \in Range(report) : r.features = f /\ r.expected = 8 /\ r.actual = 4

\* C7: when several counts are tied for the highest frequency in a signature
\* group, the expected count is the smallest of them.
C7_TieTakesSmallest ==
    \A f \in DOMAIN expected_counts :
        \A c \in CountsOf(f) :
            NodeCount(f, c) = NodeCount(f, expected_counts[f]) => expected_counts[f] <= c

\* C8: a node whose signature no other node shares has its own count as
\* expected count and is reported OK, never DEGRADED or OVER.
C8_SingletonIsOK ==
    \A r \in Rows :
        GroupSize(r.features) = 1 =>
            /\ r.expected = r.actual
            /\ r.status = "OK"

C8_Witness ==
    /\ pc = "done"
    /\ Len(nodes) = 3
    /\ \E r \in Range(report) : GroupSize(r.features) = 1 /\ r.status = "OK"
    /\ \E r \in Range(report) : GroupSize(r.features) = 2 /\ r.status = "DEGRADED"

\* C9: when the node listing fails or is empty, the run ends with a non-zero
\* exit status and produces no report.
C9_ListingFailureIsFatal ==
    (ListingFailedOrEmpty /\ exit_status # -1) =>
        /\ exit_status # 0
        /\ ~image.made
        /\ ~saved.made
        /\ report = <<>>
        /\ DOMAIN data = {}

\* C10: no probe result of one node aborts the batch: get_gpu_data never dies
\* in the node loop, and once it has returned every listed node has an entry.
C10_NoNodeAbortsBatch ==
    /\ pc # "crashed"
    /\ pc \in {"returned", "done"} =>
          \A i \in DOMAIN listing :
              Processable(listing[i]) =>
                  \/ Sent(listing[i].nodes) \in DOMAIN data
                  \/ Range(Hostnames(Sent(listing[i].nodes))) \subseteq DOMAIN data

\* the groups of the organized result that hold node x
GroupsOf(x) == {m \in DOMAIN image.organized : x \in DOMAIN image.organized[m]}

\* the rows handed to save_cluster_image that are about node x
RowsOf(x) == {k \in DOMAIN saved.rows : saved.rows[k].name = x}

\* C11: when the run is over, the report handed to the consumers has exactly
\* one entry for every node of the listing, also for a node with count 0 or
\* with no slots.
C11_OneEntryPerNode ==
    pc = "done" =>
        IF script = "old7"
        THEN \A i \in DOMAIN raw_output : Cardinality(RowsOf(raw_output[i].name)) = 1
        ELSE \A x \in DOMAIN data : Cardinality(GroupsOf(x)) = 1

\* the last expansion failed: scontrol was run and exited non-zero or timed out
ExpansionFailed == expanded.expr # "" /\ expanded.rc \notin {-1, 0}

\* the caller goes on with what expand_hostlist returned: the names are the
\* nodes to process next, or (build_hardware_map) the keys of the truth map
CallerGoesOn ==
    /\ pc \notin {"exited", "crashed"}
    /\ (pc = "sinfo" /\ script = "old4") =>
           Range(expanded.names) \subseteq DOMAIN hardware_map

\* a step in which expand_hostlist is called: by build_hardware_map, or by
\* get_gpu_data for the next line
ExpandStep ==
    \/ pc = "build_hardware_map" /\ pc' = "sinfo"
    \/ pc = "lines" /\ lines' # lines /\ Head(lines).n >= PartsNeeded

\* C12 as stated: a failed expansion returns the one-element list holding the
\* raw expression, and the caller goes on with it.
C12_FallbackIsRawExpression ==
    [][ (ExpandStep /\ ExpansionFailed') =>
            /\ expanded'.names = <<expanded'.expr>>
            /\ CallerGoesOn'
            /\ (pc' = "lines" => pending' = expanded'.names) ]_vars

\* C12, amended: a failed expansion returns the one-element list holding the
\* expression as it was handed to scontrol (old4 removes its blanks first),
\* and the caller goes on with it as one node name.
C12_FallbackIsSentExpression ==
    [][ (ExpandStep /\ ExpansionFailed') =>
            /\ expanded'.names = <<Sent(expanded'.expr)>>
            /\ CallerGoesOn'
            /\ (pc' = "lines" => pending' = expanded'.names) ]_vars

C12_Witness ==
    /\ pc = "done"
    /\ ExpansionFailed
    /\ expanded.expr = "n[1-2]"
    /\ "n[1-2]" \in DOMAIN data
    /\ data["n[1-2]"].gpus # <<>>

\* the descriptor of the node reconciled last is the join of these segments
Describes(segs) == JoinSegments(segs) = gres

\* the gpu segments of a descriptor
GpuSegments(segs) == {i \in DOMAIN segs : segs[i].gpu}

Txt_Unknown == <<"U", "n", "k", "n", "o", "w", "n">>

\* C13: parse_slurm_gres gives the count of the gpu:<count> or
\* gpu:<model>:<count> segment whatever other segments surround it, and
\* count 0 with model "Unknown" when the descriptor has no such segment.
C13_GresCountAndSentinel ==
    (script = "cur" /\ last.node # "") =>
        \A segs \in Descriptors :
            Describes(segs) =>
                /\ \A i \in GpuSegments(segs) :
                      GpuSegments(segs) = {i} => last.expected = segs[i].count
                /\ GpuSegments(segs) = {} =>
                      last.expected = 0 /\ last.model = Txt_Unknown

\* how many times the probe command was issued for node x
ProbesOf(x) == Cardinality({i \in DOMAIN srun_log : srun_log[i] = x})

\* C14: in a run, the probe is issued at most once for a node name, also when
\* several lines of the listing give that node.
C14_ProbedAtMostOnce ==
    \A i \in DOMAIN srun_log : ProbesOf(srun_log[i]) <= 1

\* a node has been classified: a row of the text report or of the image exists
SomeClassified == Rows # {}

\* pass 1 is complete: every node's count is in the group of its signature,
\* and every signature has its expected count
LearningComplete ==
    /\ \A i \in DOMAIN nodes :
          /\ nodes[i].features \in DOMAIN feature_groups
          /\ nodes[i].features \in DOMAIN expected_counts
    /\ \A f \in DOMAIN feature_groups :
          /\ Len(feature_groups[f]) = GroupSize(f)
          /\ \A c \in Range(feature_groups[f]) :
                CountOf(feature_groups[f], c) = NodeCount(f, c)

\* C15: no node is classified before pass 1 is complete for the whole batch,
\* and from the first classification on the groups and their expected counts
\* do not change; every row carries the expected count of its signature.
C15_PeerBarrier ==
    /\ [](SomeClassified =>
             /\ LearningComplete
             /\ \A r \in Rows : r.expected = expected_counts[r.features])
    /\ [][ (SomeClassified \/ SomeClassified') =>
               /\ expected_counts' = expected_counts
               /\ feature_groups' = feature_groups ]_vars

C15_Witness ==
    /\ pc = "reporting"
    /\ Len(nodes) = 3
    /\ Len(report) = 1
    /\ Cardinality(DOMAIN expected_counts) = 2
    /\ report[1].status = "DEGRADED"

\* the indices a successful probe reported that reach the expected count
Excess == {i \in Observed : i >= last.expected}

\* a warning was printed about node x
WarnedAbout(x) == \E w \in warnings : w.node = x

\* C16: an index the successful probe reported that is greater than or equal
\* to the expected count stays among the node's slots, and a warning about
\* the node is raised.
C16_ExcessIndexFlagged ==
    (Reconciled /\ Success /\ Excess # {}) =>
        /\ \A i \in Excess : Str(i) \in IndexSet(LastGpus)
        /\ WarnedAbout(last.node)

\* the lines of the last probe output that are non-negative integers
IntegerLines == SelectSeq(last.out, LAMBDA l : IsDigit(l.index))

\* C17: a line of the probe output that is not a non-negative integer is
\* ignored: the run goes on, no slot carries it, and the slots are those the
\* output without that line gives.
C17_NonIntegerLineIgnored ==
    (script = "old4" /\ Success) =>
        /\ pc # "crashed"
        /\ \A k \in DOMAIN LastGpus : IsDigit(LastGpus[k].index)
        /\ LastGpus = SortGpus(Old4Query(last.model, last.expected, IntegerLines))

\* C18: a node whose expected count is 0 ends reconciliation without slots,
\* whether its probe succeeded, failed or was not attempted.
C18_NoExpectationNoSlots ==
    (Reconciled /\ last.expected = 0) => LastGpus = <<>>

\* a Gres text of a documented form, gpu:<count> or gpu:<model>:<count>, and
\* the <count> it ends with
Documented(t) ==
    /\ StartsWith(t, Txt_gpu_colon)
    /\ Len(Split(t, ":")) \in {2, 3}
    /\ IsDigit(Split(t, ":")[Len(Split(t, ":"))])
TrailingCount(t) == ParseNat(Split(t, ":")[Len(Split(t, ":"))])

\* C19: parse_nodes gives a node the trailing <count> of its Gres field as
\* gpu_count, for gpu:<count> and for gpu:<model>:<count>, also when the
\* model holds digits.
C19_GpuCountIsTrailingCount ==
    pc \notin {"scontrol", "parse_nodes"} =>
        \A i \in DOMAIN raw_output :
            Documented(raw_output[i].gres) =>
                \E k \in DOMAIN nodes :
                    /\ nodes[k].name = raw_output[i].name
                    /\ nodes[k].gpu_count = TrailingCount(raw_output[i].gres)

====
